---------------------------- MODULE Spec2Model ----------------------------
(* A model of the book-to-speech pipeline of sample.py (class BookToSpeech *)
(* and its __main__ block).  Text is a tuple of one-character strings, a   *)
(* Python dict is the tuple of its items in insertion order, and the       *)
(* external collaborators (PDF reader, parser, synthesis engine, audio     *)
(* utility) are nondeterministic choices over the outcomes they can have.  *)
(* The script pipeline of clean.py (class PDFToScript) is modelled in the  *)
(* same way, its LLM endpoint and the output file being such choices.      *)
EXTENDS Integers, Sequences, FiniteSets, TLC

VARIABLES
    pc,                \* position of the run in __main__ / generate_audio
    speed,             \* self.speed, in tenths (10 is 1.0)
    text,              \* what extract_text_from_pdf returned
    sentences,         \* generate_audio: the pieces of re.split
    idx,               \* generate_audio: 0-based index of the loop
    cur,               \* generate_audio: sentence, speaker, dialogue, voice
    segment,           \* generate_audio: the loaded AudioSegment
    output_audio,      \* generate_audio: the accumulating track
    temp_files,        \* generate_audio: the paths registered for cleanup
    disk,              \* idx of every output_audio/temp_<idx>.wav that exists
    exported,          \* the exported track (none before an export)
    character_voices,  \* self.character_voices, items in insertion order
    next_voice_index,  \* self.next_voice_index
    attributed,        \* history: idx of the sentences given to detect_speaker
    tts_calls,         \* history: <<idx, outcome>> of every tts_to_file call
    docs,              \* history: the parse the parser returned per idx
    run,               \* 1 in the first run of the pipeline, 2 in a re-run
    first_voices,      \* character_voices at the end of the first run
    last_call,         \* history: label and result of the last assign_voice
    attr_in,           \* attribution alone: the sentence and its parse
    attr_out,          \* attribution alone: what detect_speaker returned
    chunk_size,        \* clean.py: chunk_size of the chunk_text call
    chunks,            \* clean.py: what chunk_text returned
    full_script,       \* clean.py generate_script: the results kept
    chunk_calls,       \* history: chunk and response of every process_chunk
    output_file        \* clean.py: the content of output_path (none: no file)

vars == <<pc, speed, text, sentences, idx, cur, segment, output_audio,
          temp_files, disk, exported, character_voices, next_voice_index,
          attributed, tts_calls, docs, run, first_voices, last_call,
          attr_in, attr_out, chunk_size, chunks, full_script, chunk_calls,
          output_file>>

-----------------------------------------------------------------------------
(* Bounds of the model.                                                    *)

\* pages of the PDF handed to extract_text_from_pdf
MaxPages == 2
\* tokens of a parse handed to detect_speaker_ml on its own
MaxTokens == 2
\* characters of a sentence handed to detect_speaker on its own
MaxSentLen == 3
\* characters of a text handed to generate_audio on its own
MaxTextLen == 4
\* character names a sequence of assign_voice calls may introduce
MaxNames == 11
\* pages of the PDF handed to PDFToScript.extract_text_from_pdf
MaxScriptPages == 3
\* characters of a text handed to chunk_text on its own
MaxChunkText == 5
\* largest chunk_size handed to chunk_text on its own
MaxChunkSize == 6

-----------------------------------------------------------------------------
(* Characters and strings.                                                 *)

\* the characters Python's \s and str.strip() treat as whitespace
Whitespace == {" ", "\n", "\t"}

\* [.!?] of the sentence split
Terminal == {".", "!", "?"}

\* [.,!?] of the punctuation-spacing fix
Punct == {".", ",", "!", "?"}

\* ["\'] of the quote pattern and of the quote test
QuoteChars == {"\"", "'"}

\* U+2018 and U+2019, the two characters of the pattern of line 34
SmartQuotes == {"lsquo", "rsquo"}

Min(a, b) == IF a < b THEN a ELSE b

\* s[a..b] as a tuple, empty when a > b
Slice(s, a, b) == [i \in 1..(b - a + 1) |-> s[a + i - 1]]

\* str.strip()
strip(s) ==
    LET keep == {i \in 1..Len(s) : s[i] \notin Whitespace}
    IN  IF keep = {} THEN <<>>
        ELSE LET a == CHOOSE i \in keep : \A j \in keep : i <= j
                 b == CHOOSE i \in keep : \A j \in keep : j <= i
             IN  Slice(s, a, b)

\* " ".join(parts)
RECURSIVE join(_)
join(parts) ==
    IF Len(parts) = 0 THEN <<>>
    ELSE IF Len(parts) = 1 THEN parts[1]
    ELSE parts[1] \o <<" ">> \o join(Tail(parts))

\* an optional value: Python's None, or a value
None == [none |-> TRUE, val |-> <<>>]
Some(v) == [none |-> FALSE, val |-> v]

\* Truthy, were the test `if text is not None:`
truthy_not_none(t) == ~t.none

\* truth value of `text` in `if text:` (None and "" are false)
Truthy(t) == ~t.none /\ Len(t.val) > 0

-----------------------------------------------------------------------------
(* extract_text_from_pdf (sample.py 27-42).                                *)

\* pdf.pages[:3]
PageLimit == 3

\* the subsequence of s at the indexes in K, from index i on
RECURSIVE KeepFrom(_, _, _)
KeepFrom(s, K, i) ==
    IF i > Len(s) THEN <<>>
    ELSE (IF i \in K THEN <<s[i]>> ELSE <<>>) \o KeepFrom(s, K, i + 1)

\* re.sub(r"lsquo|rsquo", '"', text)
sub_smart_quotes(s) ==
    [i \in 1..Len(s) |-> IF s[i] \in SmartQuotes THEN "\"" ELSE s[i]]

\* re.sub(r'\s+([.,!?])', r'\1', text): a whitespace run that a punctuation
\* mark follows is dropped
sub_space_before_punct(s) ==
    LET NonWsAfter(i) == {j \in (i + 1)..Len(s) : s[j] \notin Whitespace}
        Dropped(i) ==
            /\ s[i] \in Whitespace
            /\ NonWsAfter(i) # {}
            /\ s[CHOOSE j \in NonWsAfter(i) : \A k \in NonWsAfter(i) : j <= k]
                   \in Punct
    IN  KeepFrom(s, {i \in 1..Len(s) : ~Dropped(i)}, 1)

\* re.sub(r'\n+', ' ', text): a run of newlines becomes one space
sub_newlines(s) ==
    LET first == {i \in 1..Len(s) : s[i] # "\n" \/ i = 1 \/ s[i - 1] # "\n"}
        kept  == KeepFrom(s, first, 1)
    IN  [i \in 1..Len(kept) |-> IF kept[i] = "\n" THEN " " ELSE kept[i]]

\* lines 32-37 on one page
normalize_page(t) == sub_newlines(sub_space_before_punct(sub_smart_quotes(t)))

\* The value extract_text_from_pdf returns.  pdf.readable is FALSE when
\* pdfplumber.open raises; a page is what page.extract_text returned, None
\* included (re.sub then raises TypeError).  Every exception is caught and
\* None is returned.
extract_text_from_pdf(pdf) ==
    LET pages == Slice(pdf.pages, 1, Min(PageLimit, Len(pdf.pages)))
    IN  IF ~pdf.readable \/ \E i \in 1..Len(pages) : pages[i].none
        THEN None
        ELSE Some(join([i \in 1..Len(pages) |-> normalize_page(pages[i].val)]))

\* the pages the model reads
PageTexts ==
    { None,
      Some(<<>>),
      Some(<<"a", ".">>),
      Some(<<"lsquo", "a", "rsquo", " ", "!">>),
      Some(<<"a", "'", "a", "?", "\n", "\n">>) }

RECURSIVE SeqsUpTo(_, _)
\* the tuples over S of length at most n
SeqsUpTo(S, n) ==
    IF n = 0 THEN {<<>>}
    ELSE LET shorter == SeqsUpTo(S, n - 1)
         IN  shorter \cup {Append(q, x) : q \in shorter, x \in S}

\* the PDFs the model reads
PDFs ==
    {[readable |-> FALSE, pages |-> <<>>]}
        \cup {[readable |-> TRUE, pages |-> p] : p \in SeqsUpTo(PageTexts, MaxPages)}

-----------------------------------------------------------------------------
(* The sentence split of generate_audio (sample.py 90).                    *)

\* the index of the first character at or after i that is no whitespace
RECURSIVE SkipWhitespace(_, _)
SkipWhitespace(s, i) ==
    IF i <= Len(s) /\ s[i] \in Whitespace THEN SkipWhitespace(s, i + 1) ELSE i

\* re.split(r'(?<=[.!?])\s+', text), scanning from index i with the piece
\* `piece` open: a whitespace run is a separator when the character before
\* it is '.', '!' or '?'
RECURSIVE SplitFrom(_, _, _)
SplitFrom(s, i, piece) ==
    IF i > Len(s) THEN <<piece>>
    ELSE IF i > 1 /\ s[i - 1] \in Terminal /\ s[i] \in Whitespace
    THEN <<piece>> \o SplitFrom(s, SkipWhitespace(s, i), <<>>)
    ELSE SplitFrom(s, i + 1, Append(piece, s[i]))

\* the split, were the pattern r'\s+' without its lookbehind
RECURSIVE SplitAnyFrom(_, _, _)
SplitAnyFrom(s, i, piece) ==
    IF i > Len(s) THEN <<piece>>
    ELSE IF s[i] \in Whitespace
    THEN <<piece>> \o SplitAnyFrom(s, SkipWhitespace(s, i), <<>>)
    ELSE SplitAnyFrom(s, i + 1, Append(piece, s[i]))

split_at_any_whitespace(s) == SplitAnyFrom(s, 1, <<>>)

split_sentences(s) == SplitFrom(s, 1, <<>>)

-----------------------------------------------------------------------------
(* detect_speaker_ml and detect_speaker (sample.py 45-85).  A parse (doc)  *)
(* is the tuple of its tokens; a token has its lemma and its children, a   *)
(* child its text and its dependency role.  Lemmas, roles and speaker      *)
(* labels are atomic strings.                                              *)

\* speech_verbs, were the forms of cry among them
speech_verbs_with_cry ==
    {"say", "said", "exclaim", "exclaimed", "shout", "shouted",
     "whisper", "whispered", "scream", "screamed", "yell", "yelled",
     "ask", "asked", "reply", "replied", "cry", "cried"}

speech_verbs == {"say", "said", "exclaim", "exclaimed", "shout", "shouted",
                 "whisper", "whispered", "scream", "screamed", "yell", "yelled",
                 "ask", "asked", "reply", "replied"}

\* the roles of line 65
subject_deps == {"nsubj", "nsubjpass"}

\* str.lower() on the lemmas of the model
lower(lemma) ==
    CASE lemma = "Said" -> "said"
      [] lemma = "Cry" -> "cry"
      [] OTHER -> lemma

\* re.findall(r'["\'](.*?)["\']', sentence)[0] when there is a match: the
\* match starts at the first quote character that another quote character
\* follows with no newline in between ('.' matches no newline), and ends at
\* the nearest such quote character
first_quote_match(sentence) ==
    LET n == Len(sentence)
        Quotes == {i \in 1..n : sentence[i] \in QuoteChars}
        Close(i) == CHOOSE j \in Quotes : j > i /\ \A k \in Quotes : k > i => j <= k
        Opens(i) ==
            /\ \E j \in Quotes : j > i
            /\ \A k \in (i + 1)..(Close(i) - 1) : sentence[k] # "\n"
        Starts == {i \in Quotes : Opens(i)}
    IN  IF Starts = {} THEN None
        ELSE LET i == CHOOSE a \in Starts : \A b \in Starts : a <= b
             IN  Some(Slice(sentence, i + 1, Close(i) - 1))

\* lines 64-67: the text of the first child with a subject role, "" for None
first_subject(children) ==
    LET subj == {c \in 1..Len(children) : children[c].dep \in subject_deps}
    IN  IF subj = {} THEN ""
        ELSE children[CHOOSE c \in subj : \A d \in subj : c <= d].text

\* scan_tokens, were the scan to stop at the first speech verb whether or
\* not it has a subject
scan_first_speech_verb(doc, i) ==
    LET V == {k \in i..Len(doc) : lower(doc[k].lemma) \in speech_verbs}
    IN  IF V = {} THEN ""
        ELSE first_subject(doc[CHOOSE k \in V : \A l \in V : k <= l].children)

\* lines 60-69: the scan of the tokens from token i on; "" when no speech
\* verb yields a speaker (an empty text is false in `if speaker:`)
RECURSIVE scan_tokens(_, _)
scan_tokens(doc, i) ==
    IF i > Len(doc) THEN ""
    ELSE IF lower(doc[i].lemma) \in speech_verbs
            /\ first_subject(doc[i].children) # ""
    THEN first_subject(doc[i].children)
    ELSE scan_tokens(doc, i + 1)

\* speaker_label, were the quote test `'"' in sentence` alone
speaker_label_double_quote_only(found, sentence) ==
    IF found # "" THEN found
    ELSE IF \E i \in 1..Len(sentence) : sentence[i] = "\""
         THEN "dialogue"
         ELSE "narrator"

\* lines 72-76: the label when the scan found the speaker `found`
speaker_label(found, sentence) ==
    IF found # "" THEN found
    ELSE IF \E i \in 1..Len(sentence) : sentence[i] \in QuoteChars
         THEN "dialogue"
         ELSE "narrator"

\* dialogue_text without the fallback of lines 78-79 for an empty quotation
dialogue_text_keeps_empty(sentence) ==
    LET m == first_quote_match(sentence)
    IN  IF m.none THEN sentence ELSE strip(m.val)

\* lines 48-53 and 77-79: the text to vocalize
dialogue_text(sentence) ==
    LET m == first_quote_match(sentence)
        d == IF m.none THEN <<>> ELSE strip(m.val)
    IN  IF Len(d) = 0 THEN sentence ELSE d

\* detect_speaker_ml(sentence) when nlp(sentence) is doc
detect_speaker_ml(sentence, doc) ==
    [speaker  |-> speaker_label(scan_tokens(doc, 1), sentence),
     dialogue |-> <<"\"">> \o dialogue_text(sentence) \o <<"\"">>]

\* detect_speaker(current_index, sentences), current_index 0-based
detect_speaker(current_index, sents, doc) ==
    detect_speaker_ml(strip(sents[current_index + 1]), doc)

\* the tokens of the parses the model draws
Child(t, d) == [text |-> t, dep |-> d]
Token(l, c) == [lemma |-> l, children |-> c]

TokenSet ==
    { Token("say", <<Child("he", "nsubj")>>),
      Token("say", <<Child("it", "dobj")>>),
      Token("ask", <<Child("it", "dobj"), Child("Tom", "nsubjpass")>>),
      Token("Said", <<Child("He", "nsubj"), Child("she", "nsubj")>>),
      Token("cry", <<Child("she", "nsubj")>>),
      Token("be", <<Child("room", "nsubj")>>),
      Token("stop", <<>>) }

\* the parses detect_speaker_ml is applied to on its own
Docs == SeqsUpTo(TokenSet, MaxTokens)

\* the parses the parser returns inside a run of the pipeline
RunDocs ==
    { <<>>,
      <<Token("say", <<Child("he", "nsubj")>>)>>,
      <<Token("cry", <<Child("she", "nsubj")>>)>>,
      <<Token("say", <<Child("it", "dobj")>>),
        Token("ask", <<Child("it", "dobj"), Child("Tom", "nsubjpass")>>)>> }

-----------------------------------------------------------------------------
(* The voice registry: __init__ and assign_voice (sample.py 20-23,         *)
(* 131-139).                                                               *)

available_voices == <<"p225", "p226", "p227", "p228", "p229",
                      "p230", "p231", "p232", "p233", "p234">>

\* initial_character_voices, were the narrator not bound in __init__
no_initial_binding == <<>>

\* self.character_voices = {"narrator": "p225"}
initial_character_voices == <<[label |-> "narrator", voice |-> "p225"]>>

\* self.next_voice_index = 1
initial_next_voice_index == 1

\* character in self.character_voices
Bound(cv, character) == \E i \in 1..Len(cv) : cv[i].label = character

\* self.character_voices[character]
Lookup(cv, character) ==
    cv[CHOOSE i \in 1..Len(cv) : cv[i].label = character].voice

\* self.character_voices[character] = voice: a new key goes last, an old key
\* keeps its place
Put(cv, character, voice) ==
    IF Bound(cv, character)
    THEN [i \in 1..Len(cv) |->
             IF cv[i].label = character
             THEN [label |-> character, voice |-> voice] ELSE cv[i]]
    ELSE Append(cv, [label |-> character, voice |-> voice])

\* self.available_voices[i] raises IndexError outside -len..len-1
IndexInRange(i) == -Len(available_voices) <= i /\ i < Len(available_voices)

\* assign_voice without the test `character not in self.character_voices`:
\* every call binds the label to the voice under the cursor
assign_voice_rebinds(cv, nvi, character) ==
    LET voices == Put(cv, character, available_voices[(nvi % Len(available_voices)) + 1])
    IN  [voices |-> voices, index |-> (nvi + 1) % Len(available_voices),
         ret |-> Lookup(voices, character)]

\* assign_voice without the advance of the cursor of line 135
assign_voice_no_advance(cv, nvi, character) ==
    LET voices == IF Bound(cv, character) THEN cv
                  ELSE Put(cv, character, available_voices[(nvi % Len(available_voices)) + 1])
    IN  [voices |-> voices, index |-> nvi, ret |-> Lookup(voices, character)]

\* assign_voice advancing the cursor on every call, a lookup included
assign_voice_advances_on_lookup(cv, nvi, character) ==
    LET voices == IF Bound(cv, character) THEN cv
                  ELSE Put(cv, character, available_voices[(nvi % Len(available_voices)) + 1])
    IN  [voices |-> voices, index |-> (nvi + 1) % Len(available_voices),
         ret |-> Lookup(voices, character)]

\* assign_voice without the modulo of line 135: past the pool the indexing
\* raises and the except branch binds p225
assign_voice_no_wrap(cv, nvi, character) ==
    LET after ==
            IF Bound(cv, character)
            THEN [voices |-> cv, index |-> nvi]
            ELSE IF IndexInRange(nvi)
            THEN [voices |-> Put(cv, character,
                                 available_voices[(nvi % Len(available_voices)) + 1]),
                  index  |-> nvi + 1]
            ELSE [voices |-> Put(cv, character, "p225"), index |-> nvi]
    IN  [voices |-> after.voices, index |-> after.index,
         ret |-> Lookup(after.voices, character)]

\* assign_voice(character) on the registry (cv, nvi): the registry it leaves
\* and the voice it returns
assign_voice(cv, nvi, character) ==
    LET after ==
            IF Bound(cv, character)
            THEN [voices |-> cv, index |-> nvi]
            ELSE IF IndexInRange(nvi)
            THEN [voices |-> Put(cv, character,
                                 available_voices[(nvi % Len(available_voices)) + 1]),
                  index  |-> (nvi + 1) % Len(available_voices)]
            ELSE [voices |-> Put(cv, character, "p225"), index |-> nvi]
    IN  [voices |-> after.voices, index |-> after.index,
         ret |-> Lookup(after.voices, character)]

-----------------------------------------------------------------------------
(* The audio-segment utility, as far as generate_audio uses it.  A track   *)
(* is the tuple of its parts, a part a silence of a duration or one        *)
(* synthesized segment.                                                    *)

\* AudioSegment.silent(duration=100), line 91
LeadingSilenceMs == 100
\* AudioSegment.silent(duration=200), line 118
TrailingSilenceMs == 200

silent(duration) ==
    [kind |-> "silence", ms |-> duration, idx |-> -1, voice |-> "",
     text |-> <<>>, speed |-> 10]

\* the segment tts_to_file wrote for sentence i and from_wav loaded
loaded_segment(i, voice, dialogue) ==
    [kind |-> "segment", ms |-> 0, idx |-> i, voice |-> voice,
     text |-> dialogue, speed |-> 10]

\* lines 113-116: the segment replayed at self.speed
resampled(seg, spd) == [seg EXCEPT !.speed = spd]

\* append_segment, were the silence put before the segment
append_silence_first(track, seg) == track \o <<silent(TrailingSilenceMs), seg>>

\* line 118: output_audio += segment + AudioSegment.silent(duration=200)
append_segment(track, seg) == track \o <<seg, silent(TrailingSilenceMs)>>

\* remove_temp_files, were the cleanup to remove nothing
remove_nothing(files, registered) == files

\* lines 126-128: the temp files that exist are removed
remove_temp_files(files, registered) ==
    files \ {registered[i] : i \in 1..Len(registered)}

-----------------------------------------------------------------------------
(* The run of __main__ (sample.py 142-154) and generate_audio (88-128).    *)

\* the values of self.speed: 1.0 (the default) and 0.8 (the one of __main__)
Speeds == {10, 8}

NoCur == [sentence |-> <<>>, speaker |-> "", dialogue |-> <<>>, voice |-> ""]
NoSegment == loaded_segment(-1, "", <<>>)
NoCall == [label |-> "", voice |-> ""]
NoResult == [speaker |-> "", dialogue |-> <<>>]
NoInput == [sentence |-> <<>>, doc |-> <<>>]

\* chunk_size: int = 1000
DefaultChunkSize == 1000

\* the variables of clean.py before generate_script or chunk_text starts
IdleScript ==
    /\ chunk_size = DefaultChunkSize
    /\ chunks = <<>>
    /\ full_script = <<>>
    /\ chunk_calls = <<>>
    /\ output_file = None

\* the variables of one generate_audio call before it starts
IdleRun ==
    /\ sentences = <<>>
    /\ idx = 0
    /\ cur = NoCur
    /\ segment = NoSegment
    /\ output_audio = <<>>
    /\ temp_files = <<>>
    /\ attributed = <<>>
    /\ tts_calls = <<>>

\* BookToSpeech(speed), before __main__ extracts the text
Init ==
    /\ pc = "main"
    /\ speed \in Speeds
    /\ text = None
    /\ IdleRun
    /\ IdleScript
    /\ disk = {}
    /\ exported = None
    /\ character_voices = initial_character_voices
    /\ next_voice_index = initial_next_voice_index
    /\ docs = <<>>
    /\ run = 1
    /\ first_voices = None
    /\ last_call = NoCall
    /\ attr_in = NoInput
    /\ attr_out = NoResult

registryVars == <<character_voices, next_voice_index, last_call>>
scriptVars == <<chunk_size, chunks, full_script, chunk_calls, output_file>>
aloneVars == <<attr_in, attr_out, scriptVars>>
rerunVars == <<run, first_voices>>
loopVars == <<sentences, idx, cur, segment, output_audio, temp_files>>

\* line 146: text = converter.extract_text_from_pdf("ch_1.pdf")
ExtractText ==
    /\ pc = "main"
    /\ \E pdf \in PDFs : text' = extract_text_from_pdf(pdf)
    /\ pc' = "branch"
    /\ UNCHANGED <<speed, loopVars, disk, exported, registryVars, attributed,
                   tts_calls, docs, rerunVars, aloneVars>>

\* lines 148-154 and 90-92: `if text:` enters generate_audio, which splits
\* the text and opens the track with the leading silence; otherwise
\* "Failed to process PDF"
MainBranch ==
    /\ pc = "branch"
    /\ IF Truthy(text)
       THEN /\ sentences' = split_sentences(text.val)
            /\ output_audio' = <<silent(LeadingSilenceMs)>>
            /\ temp_files' = <<>>
            /\ idx' = 0
            /\ pc' = "loop"
       ELSE /\ pc' = "failed"
            /\ UNCHANGED <<sentences, output_audio, temp_files, idx>>
    /\ UNCHANGED <<speed, text, cur, segment, disk, exported, registryVars,
                   attributed, tts_calls, docs, rerunVars, aloneVars>>

\* lines 95-98: the loop takes the next piece, strips it and skips it when
\* nothing is left; after the last piece the loop ends
NextSentence ==
    /\ pc = "loop"
    /\ IF idx >= Len(sentences)
       THEN /\ pc' = "export"
            /\ UNCHANGED <<idx, cur>>
       ELSE IF strip(sentences[idx + 1]) = <<>>
       THEN /\ idx' = idx + 1
            /\ UNCHANGED <<pc, cur>>
       ELSE /\ cur' = [NoCur EXCEPT !.sentence = strip(sentences[idx + 1])]
            /\ pc' = "detect"
            /\ UNCHANGED idx
    /\ UNCHANGED <<speed, text, sentences, segment, output_audio, temp_files,
                   disk, exported, registryVars, attributed, tts_calls, docs,
                   rerunVars, aloneVars>>

\* the parse of sentence i the first run recorded
Recorded(i) == {r \in {docs[k] : k \in 1..Len(docs)} : r.idx = i}

\* what nlp(sentence) may return for sentence i: any parse in the first
\* run, and in a re-run over the same text the parse of the first run
ParserResults(i) ==
    IF run = 2 /\ Recorded(i) # {} THEN {r.doc : r \in Recorded(i)} ELSE RunDocs

\* line 100: speaker, dialogue = self.detect_speaker(idx, sentences)
DetectSpeaker ==
    /\ pc = "detect"
    /\ \E doc \in ParserResults(idx) :
          LET r == detect_speaker(idx, sentences, doc)
          IN  /\ cur' = [cur EXCEPT !.speaker = r.speaker, !.dialogue = r.dialogue]
              /\ docs' = IF run = 1 THEN Append(docs, [idx |-> idx, doc |-> doc])
                         ELSE docs
    /\ attributed' = Append(attributed, idx)
    /\ pc' = "assign"
    /\ UNCHANGED <<speed, text, sentences, idx, segment, output_audio,
                   temp_files, disk, exported, registryVars, tts_calls,
                   rerunVars, aloneVars>>

\* lines 101-103: voice = self.assign_voice(speaker)
AssignVoice ==
    /\ pc = "assign"
    /\ LET r == assign_voice(character_voices, next_voice_index, cur.speaker)
       IN  /\ character_voices' = r.voices
           /\ next_voice_index' = r.index
           /\ cur' = [cur EXCEPT !.voice = r.ret]
           /\ last_call' = [label |-> cur.speaker, voice |-> r.ret]
    /\ pc' = "tts"
    /\ UNCHANGED <<speed, text, sentences, idx, segment, output_audio,
                   temp_files, disk, exported, attributed, tts_calls, docs,
                   rerunVars, aloneVars>>

\* what a tts_to_file call can do: write the file, raise before the file
\* exists, or raise after it created the file
TtsOutcomes == {"ok", "error", "error_file"}

\* lines 105-110: self.tts.tts_to_file(..., file_path=temp_path, ...)
TtsToFile ==
    /\ pc = "tts"
    /\ \E outcome \in TtsOutcomes :
          /\ tts_calls' = Append(tts_calls, [idx |-> idx, outcome |-> outcome])
          /\ disk' = IF outcome = "error" THEN disk ELSE disk \cup {idx}
          /\ pc' = IF outcome = "ok" THEN "load" ELSE "except"
    /\ UNCHANGED <<speed, text, loopVars, exported, registryVars, attributed,
                   docs, rerunVars, aloneVars>>

\* line 112: segment = AudioSegment.from_wav(temp_path), which may raise
FromWav ==
    /\ pc = "load"
    /\ \/ /\ segment' = loaded_segment(idx, cur.voice, cur.dialogue)
          /\ pc' = "resample"
       \/ /\ pc' = "except"
          /\ UNCHANGED segment
    /\ UNCHANGED <<speed, text, sentences, idx, cur, output_audio, temp_files,
                   disk, exported, registryVars, attributed, tts_calls, docs,
                   rerunVars, aloneVars>>

\* lines 113-116: at a speed other than 1.0 the segment is resampled, which
\* may raise
Resample ==
    /\ pc = "resample"
    /\ \/ /\ speed # 10
          /\ segment' = resampled(segment, speed)
          /\ pc' = "append"
       \/ /\ speed # 10
          /\ pc' = "except"
          /\ UNCHANGED segment
       \/ /\ speed = 10
          /\ pc' = "append"
          /\ UNCHANGED segment
    /\ UNCHANGED <<speed, text, sentences, idx, cur, output_audio, temp_files,
                   disk, exported, registryVars, attributed, tts_calls, docs,
                   rerunVars, aloneVars>>

\* lines 118-119: the segment and the trailing silence join the track, the
\* temp path is registered for cleanup, and the loop goes on
AppendSegment ==
    /\ pc = "append"
    /\ output_audio' = append_segment(output_audio, segment)
    /\ temp_files' = Append(temp_files, idx)
    /\ idx' = idx + 1
    /\ pc' = "loop"
    /\ UNCHANGED <<speed, text, sentences, cur, segment, disk, exported,
                   registryVars, attributed, tts_calls, docs, rerunVars,
                   aloneVars>>

\* lines 121-122: output_audio.export(...), which may raise
Export ==
    /\ pc = "export"
    /\ \/ /\ exported' = Some(output_audio)
          /\ pc' = "finally"
       \/ /\ pc' = "except"
          /\ UNCHANGED exported
    /\ UNCHANGED <<speed, text, loopVars, disk, registryVars, attributed,
                   tts_calls, docs, rerunVars, aloneVars>>

\* lines 123-124: except Exception: the error is printed
Except ==
    /\ pc = "except"
    /\ pc' = "finally"
    /\ UNCHANGED <<speed, text, loopVars, disk, exported, registryVars,
                   attributed, tts_calls, docs, rerunVars, aloneVars>>

\* lines 125-128: finally: every registered temp file that exists is removed
Finally ==
    /\ pc = "finally"
    /\ disk' = remove_temp_files(disk, temp_files)
    /\ pc' = "summary"
    /\ UNCHANGED <<speed, text, loopVars, exported, registryVars, attributed,
                   tts_calls, docs, rerunVars, aloneVars>>

\* lines 150-152: the character voices are printed
Summary ==
    /\ pc = "summary"
    /\ pc' = "done"
    /\ UNCHANGED <<speed, text, loopVars, disk, exported, registryVars,
                   attributed, tts_calls, docs, rerunVars, aloneVars>>

Next ==
    \/ ExtractText
    \/ MainBranch
    \/ NextSentence
    \/ DetectSpeaker
    \/ AssignVoice
    \/ TtsToFile
    \/ FromWav
    \/ Resample
    \/ AppendSegment
    \/ Export
    \/ Except
    \/ Finally
    \/ Summary

\* one run of the pipeline
Spec == Init /\ [][Next]_vars

-----------------------------------------------------------------------------
(* The run from `if text:` on, for a text of any content: generate_audio   *)
(* on the texts over a small alphabet and on one longer text.              *)

TextChars == {"a", ".", " ", "\n"}

\* He said hi. She left! Did she go?
ThreeSentences ==
    <<"H", "e", " ", "s", "a", "i", "d", " ", "h", "i", ".", " ",
      "S", "h", "e", " ", "l", "e", "f", "t", "!", " ",
      "D", "i", "d", " ", "s", "h", "e", " ", "g", "o", "?">>

GivenTexts == SeqsUpTo(TextChars, MaxTextLen) \cup {ThreeSentences}

InitGenerate ==
    /\ pc = "branch"
    /\ speed \in Speeds
    /\ text \in {Some(t) : t \in GivenTexts}
    /\ IdleRun
    /\ IdleScript
    /\ disk = {}
    /\ exported = None
    /\ character_voices = initial_character_voices
    /\ next_voice_index = initial_next_voice_index
    /\ docs = <<>>
    /\ run = 1
    /\ first_voices = None
    /\ last_call = NoCall
    /\ attr_in = NoInput
    /\ attr_out = NoResult

NextGenerate ==
    \/ MainBranch
    \/ NextSentence
    \/ DetectSpeaker
    \/ AssignVoice
    \/ TtsToFile
    \/ FromWav
    \/ Resample
    \/ AppendSegment
    \/ Export
    \/ Except
    \/ Finally
    \/ Summary

SpecGenerate == InitGenerate /\ [][NextGenerate]_vars

-----------------------------------------------------------------------------
(* The pipeline run twice over the same text with the same parses, the     *)
(* second run on a freshly constructed BookToSpeech.                       *)

Finished == pc \in {"done", "failed"}

\* a second BookToSpeech(speed) is constructed and __main__ runs again on
\* the text of the first run; the files on disk stay
Rerun ==
    /\ Finished
    /\ run = 1
    /\ run' = 2
    /\ first_voices' = Some(character_voices)
    /\ character_voices' = initial_character_voices
    /\ next_voice_index' = initial_next_voice_index
    /\ last_call' = NoCall
    /\ sentences' = <<>>
    /\ idx' = 0
    /\ cur' = NoCur
    /\ segment' = NoSegment
    /\ output_audio' = <<>>
    /\ temp_files' = <<>>
    /\ attributed' = <<>>
    /\ tts_calls' = <<>>
    /\ pc' = "branch"
    /\ UNCHANGED <<speed, text, disk, exported, docs, aloneVars>>

NextRerun == Next \/ Rerun

SpecRerun == Init /\ [][NextRerun]_vars

-----------------------------------------------------------------------------
(* assign_voice called on one BookToSpeech with any sequence of labels.    *)
(* assign_voice tests labels for equality only, so the character names are *)
(* introduced in the order of Names: a sequence of calls is any sequence   *)
(* up to the renaming of the names.                                        *)

Names == <<"he", "she", "Tom", "Ann", "Bob", "Eve", "Jim", "Kim", "Lee",
           "Max", "Ned", "Pam", "Ron", "Sue", "Ted", "Val">>

NameSet == {Names[i] : i \in 1..Min(MaxNames, Len(Names))}

\* the character names bound so far
BoundNames(cv) == {n \in NameSet : Bound(cv, n)}

\* the labels of the next call: a sentinel, a label called before, or the
\* next new name
CallLabels(cv) ==
    {"narrator", "dialogue"} \cup BoundNames(cv)
        \cup {Names[i] : i \in {Cardinality(BoundNames(cv)) + 1} \cap 1..Min(MaxNames, Len(Names))}

InitVoice ==
    /\ pc = "registry"
    /\ speed = 10
    /\ text = None
    /\ IdleRun
    /\ IdleScript
    /\ disk = {}
    /\ exported = None
    /\ character_voices = initial_character_voices
    /\ next_voice_index = initial_next_voice_index
    /\ docs = <<>>
    /\ run = 1
    /\ first_voices = None
    /\ last_call = NoCall
    /\ attr_in = NoInput
    /\ attr_out = NoResult

\* converter.assign_voice(label)
AssignVoiceCall ==
    /\ pc = "registry"
    /\ \E label \in CallLabels(character_voices) :
          LET r == assign_voice(character_voices, next_voice_index, label)
          IN  /\ character_voices' = r.voices
              /\ next_voice_index' = r.index
              /\ last_call' = [label |-> label, voice |-> r.ret]
    /\ UNCHANGED <<pc, speed, text, loopVars, disk, exported, attributed,
                   tts_calls, docs, rerunVars, aloneVars>>

NextVoice == AssignVoiceCall

SpecVoice == InitVoice /\ [][NextVoice]_vars

-----------------------------------------------------------------------------
(* detect_speaker applied on its own to a sentence and a parse of it.      *)

SentenceChars == {"a", " ", "\"", "'"}

\* "Stop!" she cried.
StopSentence ==
    <<"\"", "S", "t", "o", "p", "!", "\"", " ", "s", "h", "e", " ",
      "c", "r", "i", "e", "d", ".">>

\* its parse: the verb cried, lemma cry, governs the subject she
StopDoc ==
    <<Token("stop", <<Child("!", "punct")>>),
      Token("she", <<>>),
      Token("cry", <<Child("Stop", "ccomp"), Child("she", "nsubj"),
                     Child(".", "punct")>>)>>

\* The room was silent.
RoomSentence ==
    <<"T", "h", "e", " ", "r", "o", "o", "m", " ", "w", "a", "s", " ",
      "s", "i", "l", "e", "n", "t", ".">>

RoomDoc ==
    <<Token("the", <<>>),
      Token("room", <<Child("The", "det")>>),
      Token("be", <<Child("room", "nsubj"), Child("silent", "acomp"),
                    Child(".", "punct")>>)>>

\* It didn't rain.
RainSentence ==
    <<"I", "t", " ", "d", "i", "d", "n", "'", "t", " ", "r", "a", "i", "n", ".">>

RainDoc ==
    <<Token("it", <<>>),
      Token("rain", <<Child("It", "nsubj"), Child("did", "aux"),
                      Child("n't", "neg"), Child(".", "punct")>>)>>

\* He said, "I am leaving now."
LeavingSentence ==
    <<"H", "e", " ", "s", "a", "i", "d", ",", " ", "\"", "I", " ", "a", "m",
      " ", "l", "e", "a", "v", "i", "n", "g", " ", "n", "o", "w", ".", "\"">>

\* its parse: said, lemma say, governs the subject He
LeavingDoc ==
    <<Token("he", <<>>),
      Token("say", <<Child("He", "nsubj"), Child(",", "punct"),
                     Child("leaving", "ccomp")>>),
      Token("leave", <<Child("I", "nsubj"), Child("am", "aux"),
                       Child("now", "advmod"), Child(".", "punct")>>)>>

\* " hi " he said.
PaddedSentence ==
    <<"\"", " ", "h", "i", " ", "\"", " ", "h", "e", " ", "s", "a", "i", "d", ".">>

PaddedDoc ==
    <<Token("hi", <<>>),
      Token("say", <<Child("hi", "ccomp"), Child("he", "nsubj"),
                     Child(".", "punct")>>)>>

\* a quotation broken by a newline, then 'c'
BrokenSentence == <<"\"", "a", "\n", "b", "\"", " ", "'", "c", "'">>

Examples ==
    { [sentence |-> StopSentence, doc |-> StopDoc],
      [sentence |-> RoomSentence, doc |-> RoomDoc],
      [sentence |-> RainSentence, doc |-> RainDoc],
      [sentence |-> LeavingSentence, doc |-> LeavingDoc],
      [sentence |-> PaddedSentence, doc |-> PaddedDoc],
      [sentence |-> BrokenSentence, doc |-> <<>>] }

AttrInputs ==
    Examples \cup
        {[sentence |-> s, doc |-> d] : s \in SeqsUpTo(SentenceChars, MaxSentLen), d \in Docs}

InitAttr ==
    /\ pc = "attr"
    /\ attr_in \in AttrInputs
    /\ attr_out = NoResult
    /\ speed = 10
    /\ text = None
    /\ IdleRun
    /\ IdleScript
    /\ disk = {}
    /\ exported = None
    /\ character_voices = initial_character_voices
    /\ next_voice_index = initial_next_voice_index
    /\ docs = <<>>
    /\ run = 1
    /\ first_voices = None
    /\ last_call = NoCall

\* speaker, dialogue = self.detect_speaker(0, [sentence])
Attribute ==
    /\ pc = "attr"
    /\ attr_out' = detect_speaker(0, <<attr_in.sentence>>, attr_in.doc)
    /\ pc' = "attr_done"
    /\ UNCHANGED <<speed, text, loopVars, disk, exported, registryVars,
                   attributed, tts_calls, docs, rerunVars, attr_in, scriptVars>>

NextAttr == Attribute

SpecAttr == InitAttr /\ [][NextAttr]_vars

-----------------------------------------------------------------------------
(* Properties of one run of the pipeline (Spec).                           *)

\* the 0-based indexes of the pieces that are not empty once stripped
NonEmptyIdx == {i \in 0..(Len(sentences) - 1) : strip(sentences[i + 1]) # <<>>}

\* the idx of the tts_to_file calls with an outcome in O
CallsWith(O) == {tts_calls[k].idx : k \in {j \in 1..Len(tts_calls) : tts_calls[j].outcome \in O}}

AttributedIdx == {attributed[k] : k \in 1..Len(attributed)}

AppendedIdx ==
    {output_audio[k].idx : k \in {j \in 1..Len(output_audio) : output_audio[j].kind = "segment"}}

\* C1: when the synthesis call of sentence k fails, the run still attributes
\* every later non-empty sentence, calls the synthesis for it and, when that
\* call succeeds, appends its segment to the track.
C1_SynthesisFailureSkipsOneSentence ==
    pc = "done" =>
        \A k \in CallsWith({"error", "error_file"}) :
            \A j \in NonEmptyIdx :
                j > k => /\ j \in AttributedIdx
                         /\ j \in CallsWith(TtsOutcomes)
                         /\ (j \in CallsWith({"ok"}) => j \in AppendedIdx)

\* C2: once generate_audio has returned, no temp_<idx>.wav exists.
C2_NoTempFileAfterReturn ==
    pc \in {"summary", "done"} => disk = {}

\* the segments of a track, in track order
SegmentsOf(track) ==
    LET at == {k \in 1..Len(track) : track[k].kind = "segment"}
    IN  KeepFrom(track, at, 1)

\* the segments of the exported track are those of the non-empty sentences,
\* in sentence order, each with the voice and speed of this run
InSentenceOrder(segs) ==
    /\ \A i \in 1..Len(segs) : \A j \in 1..Len(segs) : i < j => segs[i].idx < segs[j].idx
    /\ {segs[i].idx : i \in 1..Len(segs)} = NonEmptyIdx
    /\ \A i \in 1..Len(segs) : segs[i].speed = speed

\* C4 (amended): the exported track is the leading silence of 100 ms and
\* then, for every segment in sentence order, the segment and a trailing
\* silence of 200 ms: a trailing silence follows the last segment too.
C4_TrackPadsEverySegment ==
    ~exported.none =>
        LET t == exported.val
            segs == SegmentsOf(t)
        IN  /\ InSentenceOrder(segs)
            /\ Len(t) = 2 * Len(segs) + 1
            /\ t[1] = silent(LeadingSilenceMs)
            /\ \A i \in 1..Len(segs) :
                  /\ t[2 * i] = segs[i]
                  /\ t[2 * i + 1] = silent(TrailingSilenceMs)

\* C4 as claimed: the exported track is the leading silence, then the
\* segments in sentence order with a trailing silence between consecutive
\* segments only, so that it ends with the last segment.
C4_TrackEndsWithLastSegment ==
    ~exported.none =>
        LET t == exported.val
            segs == SegmentsOf(t)
        IN  /\ InSentenceOrder(segs)
            /\ Len(t) = (IF Len(segs) = 0 THEN 1 ELSE 2 * Len(segs))
            /\ t[1] = silent(LeadingSilenceMs)
            /\ \A i \in 1..Len(segs) : t[2 * i] = segs[i]
            /\ \A i \in 1..(Len(segs) - 1) : t[2 * i + 1] = silent(TrailingSilenceMs)

\* a track of two segments was exported
C4_Witness ==
    /\ ~exported.none
    /\ Len(SegmentsOf(exported.val)) >= 2

-----------------------------------------------------------------------------
(* Properties of the re-run (SpecRerun).                                   *)

\* C8: the second run over the same sentences and parses, on a fresh
\* registry, ends with the bindings of the first run, in the same order.
C8_RerunBindsAlike ==
    (run = 2 /\ Finished) => character_voices = first_voices.val

-----------------------------------------------------------------------------
(* Properties of the registry under any sequence of calls (SpecVoice).     *)

\* C3: a call of assign_voice leaves every binding as it was and returns
\* the voice its label is bound to, which for a label bound before the call
\* is the voice bound before: a label resolves to one voice from its first
\* call on.
C3_VoiceBindingsStable ==
    [][ /\ \A i \in 1..Len(character_voices) :
              /\ Bound(character_voices', character_voices[i].label)
              /\ Lookup(character_voices', character_voices[i].label)
                     = character_voices[i].voice
        /\ Bound(character_voices', last_call'.label)
        /\ last_call'.voice = Lookup(character_voices', last_call'.label)
        /\ Bound(character_voices, last_call'.label)
              => last_call'.voice = Lookup(character_voices, last_call'.label)
      ]_vars

\* the first name is asked for again after the cursor has wrapped
C3_Witness ==
    /\ Len(character_voices) > Len(available_voices) + 1
    /\ last_call.label = Names[1]
    /\ last_call.voice = Lookup(character_voices, Names[1])

\* C5: the k-th label bound after the narrator holds the k-th voice after
\* the narrator's, for k up to the last voice of the pool, and the labels
\* bound before the cursor wraps, the narrator included, hold different
\* voices.
C5_DistinctVoicesUntilWrap ==
    LET cv == character_voices
        n  == Min(Len(cv), Len(available_voices))
    IN  /\ \A k \in 1..(n - 1) :
              /\ cv[k + 1].label # "narrator"
              /\ cv[k + 1].voice = available_voices[k + 1]
        /\ \A i \in 1..n : \A j \in 1..n : i # j => cv[i].voice # cv[j].voice

\* the pool was used up and the next new label took the narrator's voice
C5_Witness ==
    /\ Len(character_voices) > Len(available_voices)
    /\ character_voices[Len(available_voices)].voice = "p234"
    /\ character_voices[Len(available_voices) + 1].voice = "p225"

\* C6: the label narrator is bound to p225 in every state.
C6_NarratorBound ==
    /\ Bound(character_voices, "narrator")
    /\ Lookup(character_voices, "narrator") = "p225"

\* labels were bound past the wrap of the cursor, the last call naming
\* another label than narrator
C6_Witness ==
    /\ Len(character_voices) > Len(available_voices)
    /\ last_call.label \notin {"", "narrator"}
    /\ Lookup(character_voices, "narrator") = "p225"

-----------------------------------------------------------------------------
(* Properties of the attribution (SpecAttr).                               *)

\* the utterance "Stop!" in its added quotes
QuotedStop == <<"\"", "S", "t", "o", "p", "!", "\"">>

\* C9 (amended): for "Stop!" she cried. with the verb cried, lemma cry, and
\* its subject she, the label is dialogue (cry is no speech verb) and the
\* utterance is "Stop!".
C9_StopIsDialogue ==
    (pc = "attr_done" /\ attr_in = [sentence |-> StopSentence, doc |-> StopDoc]) =>
        attr_out = [speaker |-> "dialogue", dialogue |-> QuotedStop]

\* C9 as claimed: the label is she and the utterance is "Stop!".
C9_StopIsShe ==
    (pc = "attr_done" /\ attr_in = [sentence |-> StopSentence, doc |-> StopDoc]) =>
        attr_out = [speaker |-> "she", dialogue |-> QuotedStop]

\* "Stop!" she cried. was attributed
C9_Witness ==
    /\ pc = "attr_done"
    /\ attr_in = [sentence |-> StopSentence, doc |-> StopDoc]
    /\ attr_out.dialogue = QuotedStop

\* no token of the parse is a speech verb with a subject child
NoSubjectDetected(doc) ==
    \A i \in 1..Len(doc) :
        \/ lower(doc[i].lemma) \notin speech_verbs
        \/ \A c \in 1..Len(doc[i].children) :
              \/ doc[i].children[c].dep \notin {"nsubj", "nsubjpass"}
              \/ doc[i].children[c].text = ""

\* a character of a word
Letter(c) == c \notin (Whitespace \cup Punct \cup {"\"", "'"})

\* position i of s holds an apostrophe between two letters
ApostropheInWord(s, i) ==
    /\ s[i] = "'"
    /\ 1 < i
    /\ i < Len(s)
    /\ Letter(s[i - 1])
    /\ Letter(s[i + 1])

\* C10 (amended): when no speech-verb subject is detected, the label is
\* dialogue if the sentence holds a double quote or an apostrophe anywhere,
\* an apostrophe inside a word included, and narrator otherwise.
C10_SentinelFallback ==
    (pc = "attr_done" /\ NoSubjectDetected(attr_in.doc)) =>
        attr_out.speaker =
            (IF \E i \in 1..Len(attr_in.sentence) : attr_in.sentence[i] \in {"\"", "'"}
             THEN "dialogue" ELSE "narrator")

\* C10 as claimed: when no speech-verb subject is detected, the label is
\* dialogue if the sentence holds a quote character and narrator otherwise,
\* an apostrophe inside a word counting as no quote.
C10_ApostropheInWordIsNarrator ==
    (pc = "attr_done" /\ NoSubjectDetected(attr_in.doc)) =>
        attr_out.speaker =
            (IF \E i \in 1..Len(attr_in.sentence) :
                    /\ attr_in.sentence[i] \in {"\"", "'"}
                    /\ ~ApostropheInWord(attr_in.sentence, i)
             THEN "dialogue" ELSE "narrator")

\* It didn't rain. was attributed with no subject detected
C10_Witness ==
    /\ pc = "attr_done"
    /\ attr_in = [sentence |-> RainSentence, doc |-> RainDoc]
    /\ NoSubjectDetected(attr_in.doc)
    /\ attr_out.speaker = "dialogue"

\* the index of the quote character that closes a quotation whose content
\* starts at j: the nearest one on the same line, 0 when there is none
RECURSIVE ClosingQuote(_, _)
ClosingQuote(s, j) ==
    IF j > Len(s) THEN 0
    ELSE IF s[j] = "\n" THEN 0
    ELSE IF s[j] \in {"\"", "'"} THEN j
    ELSE ClosingQuote(s, j + 1)

\* the content of the first quotation of s found from index i on
RECURSIVE FirstQuotation(_, _)
FirstQuotation(s, i) ==
    IF i > Len(s) THEN None
    ELSE IF s[i] \in {"\"", "'"} /\ ClosingQuote(s, i + 1) # 0
    THEN Some(Slice(s, i + 1, ClosingQuote(s, i + 1) - 1))
    ELSE FirstQuotation(s, i + 1)

\* the utterance is `content` in one added pair of double quotes
Wraps(utterance, content) ==
    /\ Len(utterance) = Len(content) + 2
    /\ utterance[1] = "\""
    /\ utterance[Len(utterance)] = "\""
    /\ \A i \in 1..Len(content) : utterance[i + 1] = content[i]

\* C11 (amended): for a sentence that is not empty once trimmed, the
\* utterance is the trimmed content of the first quotation (a quote
\* character to the nearest quote character after it on the same line) when
\* there is one and it is not empty once trimmed, and the trimmed sentence
\* otherwise; the content is never empty and stands in one added pair of
\* double quotes.
C11_UtteranceTrimmedQuote ==
    (pc = "attr_done" /\ strip(attr_in.sentence) # <<>>) =>
        LET sentence == strip(attr_in.sentence)
            q == FirstQuotation(sentence, 1)
            content == IF ~q.none /\ strip(q.val) # <<>> THEN strip(q.val)
                       ELSE sentence
        IN  /\ Len(content) > 0
            /\ Wraps(attr_out.dialogue, content)

\* C11 as claimed: the utterance is the first quoted substring itself when
\* it is not empty once trimmed, and the sentence otherwise.
C11_UtteranceRawQuote ==
    (pc = "attr_done" /\ strip(attr_in.sentence) # <<>>) =>
        LET sentence == strip(attr_in.sentence)
            q == FirstQuotation(sentence, 1)
            content == IF ~q.none /\ strip(q.val) # <<>> THEN q.val
                       ELSE sentence
        IN  /\ Len(content) > 0
            /\ Wraps(attr_out.dialogue, content)

\* the sentence "" was attributed: its utterance is the sentence in quotes
C11_Witness ==
    /\ pc = "attr_done"
    /\ attr_in.sentence = <<"\"", "\"">>
    /\ attr_out.dialogue = <<"\"", "\"", "\"", "\"">>

-----------------------------------------------------------------------------
(* Properties of the segmentation (SpecGenerate).                          *)

\* the k-th smallest element of a set of numbers
KthOf(S, k) == CHOOSE x \in S : Cardinality({y \in S : y < x}) = k - 1

\* the indexes of s in a whitespace run that immediately follows '.', '!'
\* or '?'
SeparatorIdx(s) ==
    {i \in 1..Len(s) :
        /\ s[i] \in {" ", "\n", "\t"}
        /\ \E j \in 1..(i - 1) :
              /\ s[j] \in {".", "!", "?"}
              /\ \A k \in (j + 1)..i : s[k] \in {" ", "\n", "\t"}}

\* the pieces of s between its separator runs, an empty piece after a
\* separator run that ends the text
PiecesOf(s) ==
    LET sep    == SeparatorIdx(s)
        starts == {i \in sep : (i - 1) \notin sep}
        ends   == {i \in sep : (i + 1) \notin sep}
        n      == Cardinality(starts)
    IN  [k \in 1..(n + 1) |->
            Slice(s,
                  IF k = 1 THEN 1 ELSE KthOf(ends, k - 1) + 1,
                  IF k = n + 1 THEN Len(s) ELSE KthOf(starts, k) - 1)]

HeSaidHi == <<"H", "e", " ", "s", "a", "i", "d", " ", "h", "i", ".">>
SheLeft == <<"S", "h", "e", " ", "l", "e", "f", "t", "!">>
DidSheGo == <<"D", "i", "d", " ", "s", "h", "e", " ", "g", "o", "?">>

\* C12: the text is split exactly at the whitespace runs that immediately
\* follow '.', '!' or '?'; the sentences the loop processes are, in order,
\* the pieces that are not empty once trimmed, each trimmed, and an empty
\* piece brings no attribution, voice or synthesis call; once the loop has
\* ended every such piece was processed; He said hi. She left! Did she go?
\* gives its three sentences.
C12_Segmentation ==
    (pc \notin {"branch", "failed"}) =>
        /\ sentences = PiecesOf(text.val)
        /\ Len(attributed) <= Cardinality(NonEmptyIdx)
        /\ \A k \in 1..Len(attributed) : attributed[k] = KthOf(NonEmptyIdx, k)
        /\ CallsWith(TtsOutcomes) \subseteq AttributedIdx
        /\ Len(character_voices) <= 1 + Len(attributed)
        /\ pc \in {"detect", "assign", "tts", "load", "resample", "append"} =>
              /\ cur.sentence = strip(sentences[idx + 1])
              /\ cur.sentence # <<>>
        /\ pc = "export" => Len(attributed) = Cardinality(NonEmptyIdx)
        /\ text.val = ThreeSentences => sentences = <<HeSaidHi, SheLeft, DidSheGo>>

\* the loop over He said hi. She left! Did she go? has ended
C12_Witness ==
    /\ pc = "export"
    /\ text.val = ThreeSentences
    /\ attributed = <<0, 1, 2>>

-----------------------------------------------------------------------------
(* Further properties of one run of the pipeline (Spec).                   *)

\* C13: a run of generate_audio in which a synthesis call failed still ends
\* with the track exported.
C13_ExportAfterSynthesisFailure ==
    (pc = "done" /\ CallsWith({"error", "error_file"}) # {}) => ~exported.none

\* C14 (amended): the temp file of a segment folded into the track stays on
\* disk while the loop runs and is removed by the cleanup that ends
\* generate_audio: once generate_audio has returned, the temp file of no
\* folded segment exists.
C14_TempFilesRemovedAtEnd ==
    /\ pc \in {"loop", "detect", "assign", "tts", "load", "resample", "append",
               "export", "except", "finally"}
          => AppendedIdx \subseteq disk
    /\ pc \in {"summary", "done"} => AppendedIdx \cap disk = {}

\* C14 as claimed: when the synthesis of a sentence starts no temp file of
\* an earlier sentence exists, and at most one temp file exists at any time.
C14_TempFileRemovedAtOnce ==
    /\ pc = "tts" => \A i \in disk : i >= idx
    /\ Cardinality(disk) <= 1

\* the synthesis of the second sentence starts with the temp file of the
\* first on disk
C14_Witness ==
    /\ pc = "tts"
    /\ idx = 1
    /\ 0 \in AppendedIdx
    /\ 0 \in disk

-----------------------------------------------------------------------------
(* Further properties of the registry (SpecVoice).                         *)

\* C15: no label other than narrator is bound to the narrator's voice p225.
C15_NarratorVoiceReserved ==
    \A i \in 1..Len(character_voices) :
        character_voices[i].voice = "p225" => character_voices[i].label = "narrator"

\* C17: a call of assign_voice on a bound label leaves character_voices and
\* next_voice_index as they were; a call on an unbound label adds one entry
\* for that label, at the end, and moves the cursor one on modulo the size
\* of the pool; every entry present before a call is present, unchanged and
\* in its place, after it.
C17_LookupPureRegistryAddOnly ==
    [][ LET label == last_call'.label
        IN  /\ Bound(character_voices, label) =>
                  /\ character_voices' = character_voices
                  /\ next_voice_index' = next_voice_index
            /\ ~Bound(character_voices, label) =>
                  /\ Len(character_voices') = Len(character_voices) + 1
                  /\ character_voices'[Len(character_voices')].label = label
                  /\ next_voice_index'
                         = (next_voice_index + 1) % Len(available_voices)
            /\ \A i \in 1..Len(character_voices) :
                  character_voices'[i] = character_voices[i]
      ]_vars

\* three labels were added and the last call looked up the first of them
C17_Witness ==
    /\ Len(character_voices) = 4
    /\ next_voice_index = 4
    /\ last_call.label = character_voices[2].label
    /\ last_call.voice = "p226"

\* C18: the cursor is an index of the pool in every state, so the indexing
\* of line 134 never raises and the except branch of assign_voice is not
\* taken.
C18_CursorInPool ==
    /\ 0 <= next_voice_index
    /\ next_voice_index < Len(available_voices)
    /\ IndexInRange(next_voice_index)

\* the cursor went round: the label added at cursor 0 moved it on to 1
C18_Witness ==
    /\ Len(character_voices) = Len(available_voices) + 1
    /\ next_voice_index = 1
    /\ last_call.label = character_voices[Len(character_voices)].label

-----------------------------------------------------------------------------
(* The order of the speaker detection (SpecAttr).                          *)

\* the tokens of the parse that are speech verbs with a subject dependent
SpeechVerbsWithSubject(doc) ==
    {i \in 1..Len(doc) :
        /\ lower(doc[i].lemma) \in speech_verbs
        /\ \E c \in 1..Len(doc[i].children) : doc[i].children[c].dep \in subject_deps}

\* the utterance "I am leaving now." in its added quotes
QuotedLeaving == <<"\"">> \o Slice(LeavingSentence, 11, 27) \o <<"\"">>

\* C16: the speaker label is the text of the first nsubj or nsubjpass
\* dependent of the first speech verb, left to right, that has one; speech
\* verbs without one are passed over; with no such verb in the parse the
\* label is a sentinel, whatever subjects other verbs have.  He said, "I am
\* leaving now." with said governing He gives (He, "I am leaving now.").
C16_FirstSpeechVerbSubject ==
    pc = "attr_done" =>
        LET doc == attr_in.doc
            V   == SpeechVerbsWithSubject(doc)
        IN  /\ V # {} =>
                  LET i    == CHOOSE a \in V : \A b \in V : a <= b
                      kids == doc[i].children
                      S    == {c \in 1..Len(kids) : kids[c].dep \in subject_deps}
                      c    == CHOOSE a \in S : \A b \in S : a <= b
                  IN  attr_out.speaker = kids[c].text
            /\ V = {} => attr_out.speaker \in {"dialogue", "narrator"}
            /\ attr_in = [sentence |-> LeavingSentence, doc |-> LeavingDoc] =>
                  attr_out = [speaker |-> "He", dialogue |-> QuotedLeaving]

\* a speech verb without a subject came first and was passed over
C16_Witness ==
    /\ pc = "attr_done"
    /\ Len(attr_in.doc) = 2
    /\ attr_in.doc[1] = Token("say", <<Child("it", "dobj")>>)
    /\ attr_in.doc[2].lemma = "ask"
    /\ attr_out.speaker = "Tom"

-----------------------------------------------------------------------------
(* The script pipeline of clean.py (class PDFToScript).  Its texts can be  *)
(* long (chunk_size is 1000), so the operators on them work by index       *)
(* selection and recur over pieces and chunks only, never over characters. *)

\* the indexes of s, in order
Indexes(s) == [i \in 1..Len(s) |-> i]

\* the index of the last character at or before i that is no whitespace
RECURSIVE SkipWhitespaceBack(_, _)
SkipWhitespaceBack(s, i) ==
    IF i >= 1 /\ s[i] \in Whitespace THEN SkipWhitespaceBack(s, i - 1) ELSE i

\* str.strip(), from both ends inwards
str_strip(s) ==
    LET a == SkipWhitespace(s, 1)
        b == SkipWhitespaceBack(s, Len(s))
    IN  IF a > b THEN <<>> ELSE Slice(s, a, b)

\* re.sub(r'\n(?!\n)', ' ', page_text): a newline that no newline follows
\* becomes a space
sub_single_newlines(s) ==
    [i \in 1..Len(s) |->
        IF s[i] = "\n" /\ (i = Len(s) \/ s[i + 1] # "\n") THEN " " ELSE s[i]]

\* re.sub(r'\s+', ' ', page_text): a whitespace run becomes one space
sub_whitespace_runs(s) ==
    LET first == SelectSeq(Indexes(s), LAMBDA i : \/ s[i] \notin Whitespace
                                                  \/ i = 1
                                                  \/ s[i - 1] \notin Whitespace)
    IN  [k \in 1..Len(first) |->
            IF s[first[k]] \in Whitespace THEN " " ELSE s[first[k]]]

\* lines 19-26: text after the pages from page i on were added
RECURSIVE add_pages(_, _, _)
add_pages(pages, i, acc) ==
    IF i > Len(pages) THEN acc
    ELSE add_pages(pages, i + 1,
                   acc \o sub_whitespace_runs(sub_single_newlines(pages[i].val))
                       \o <<"\n", "\n">>)

\* The value PDFToScript.extract_text_from_pdf returns: the stripped text,
\* "" when pdfplumber.open raises or a page has no text (page.extract_text
\* returned None and re.sub raises TypeError).
PDFToScript_extract_text_from_pdf(pdf) ==
    IF ~pdf.readable \/ \E i \in 1..Len(pdf.pages) : pdf.pages[i].none
    THEN <<>>
    ELSE str_strip(add_pages(pdf.pages, 1, <<>>))

\* characters of a sentence long enough for two of them not to fit a chunk
LongSentenceLen == 600

\* a sentence of n characters
LongSentence(n) == [i \in 1..n |-> IF i = n THEN "." ELSE "a"]

\* the pages the script pipeline reads
ScriptPageTexts ==
    { None,
      Some(<<" ", "\n">>),
      Some(<<"a", ".", "\n", "b", "!", "\n", "\n">>),
      Some(LongSentence(LongSentenceLen)) }

\* the PDFs the script pipeline reads
ScriptPDFs ==
    {[readable |-> FALSE, pages |-> <<>>]}
        \cup {[readable |-> TRUE, pages |-> p] :
                 p \in SeqsUpTo(ScriptPageTexts, MaxScriptPages)}

\* line 35: re.split(r'(?<=[.!?])\s+', text); a separator starts at a
\* whitespace character that follows '.', '!' or '?' and runs to the end of
\* the whitespace
chunk_sentences(t) ==
    LET seps == SelectSeq(Indexes(t), LAMBDA i : /\ i > 1
                                                 /\ t[i - 1] \in Terminal
                                                 /\ t[i] \in Whitespace)
        n    == Len(seps)
    IN  [k \in 1..(n + 1) |->
            Slice(t,
                  IF k = 1 THEN 1 ELSE SkipWhitespace(t, seps[k - 1]),
                  IF k = n + 1 THEN Len(t) ELSE seps[k] - 1)]

\* lines 39-48: the loop from sentence k on, then the last chunk
RECURSIVE chunk_loop(_, _, _, _, _)
chunk_loop(sents, k, done, current_chunk, size) ==
    IF k > Len(sents)
    THEN IF Len(current_chunk) > 0
         THEN Append(done, str_strip(current_chunk))
         ELSE done
    ELSE IF Len(current_chunk) + Len(sents[k]) < size
    THEN chunk_loop(sents, k + 1, done, current_chunk \o sents[k] \o <<" ">>, size)
    ELSE chunk_loop(sents, k + 1,
                    IF Len(current_chunk) > 0
                    THEN Append(done, str_strip(current_chunk))
                    ELSE done,
                    sents[k] \o <<" ">>, size)

\* chunk_text(text, chunk_size)
chunk_text(t, size) == chunk_loop(chunk_sentences(t), 1, <<>>, <<>>, size)

\* what requests.post gave: a status and the "response" field of the body,
\* or raised (an exception of requests.post, json.loads or the key lookup)
Response(st, body) == [raised |-> FALSE, status |-> st, response |-> body]
Raised == [raised |-> TRUE, status |-> 0, response |-> <<>>]

\* the answers of the LLM endpoint the model draws
Responses ==
    { Response(200, <<" ", "b", "o", "b", ":", " ", "h", "i", "\n">>),
      Response(200, <<"backtick", "backtick", "backtick", "x", "backtick",
                      "backtick", "backtick", "a", ":", "\n", "\n", "\n",
                      "\n", "b", "backtick", "y", "backtick">>),
      Response(200, <<" ", "\n">>),
      Response(500, <<"n", "o">>),
      Raised }

\* process_chunk, were the body of a failed request returned
process_chunk_keeps_error(r) ==
    IF r.raised THEN <<>> ELSE str_strip(r.response)

\* lines 78-93: what process_chunk returns when the endpoint answers r
process_chunk(r) ==
    IF ~r.raised /\ r.status = 200 THEN str_strip(r.response) ELSE <<>>

\* positions i..i+2 of s hold a fence of three backticks; the character
\* U+0060 is the element "backtick" of a text
Fence(s, i) ==
    /\ i + 2 <= Len(s)
    /\ s[i] = "backtick"
    /\ s[i + 1] = "backtick"
    /\ s[i + 2] = "backtick"

\* line 98, re.sub of fence, anything (newlines too, as few as possible),
\* fence by '', from index i on: a fence and all up to the nearest later
\* fence is dropped
RECURSIVE sub_code_blocks(_, _)
sub_code_blocks(s, i) ==
    IF i > Len(s) THEN <<>>
    ELSE LET closes == {j \in (i + 3)..Len(s) : Fence(s, j)}
         IN  IF Fence(s, i) /\ closes # {}
             THEN sub_code_blocks(s, (CHOOSE j \in closes : \A k \in closes : j <= k) + 3)
             ELSE <<s[i]>> \o sub_code_blocks(s, i + 1)

\* line 99, re.sub of backtick, anything but newlines, backtick by '', from
\* index i on: a backtick and all up to the next backtick is dropped when
\* no newline lies between them
RECURSIVE sub_inline_code(_, _)
sub_inline_code(s, i) ==
    IF i > Len(s) THEN <<>>
    ELSE LET ticks == {j \in (i + 1)..Len(s) : s[j] = "backtick"}
             close == CHOOSE j \in ticks : \A k \in ticks : j <= k
         IN  IF /\ s[i] = "backtick"
                /\ ticks # {}
                /\ \A k \in (i + 1)..(close - 1) : s[k] # "\n"
             THEN sub_inline_code(s, close + 1)
             ELSE <<s[i]>> \o sub_inline_code(s, i + 1)

\* re.sub(r'\n{3,}', '\n\n', script): of a run of newlines the first two stay
sub_blank_lines(s) ==
    KeepFrom(s, {i \in 1..Len(s) :
                    ~(i > 2 /\ s[i] = "\n" /\ s[i - 1] = "\n" /\ s[i - 2] = "\n")}, 1)

AsciiLower == <<"a", "b", "c", "d", "e", "f", "g", "h", "i", "j", "k", "l", "m",
                "n", "o", "p", "q", "r", "s", "t", "u", "v", "w", "x", "y", "z">>
AsciiUpper == <<"A", "B", "C", "D", "E", "F", "G", "H", "I", "J", "K", "L", "M",
                "N", "O", "P", "Q", "R", "S", "T", "U", "V", "W", "X", "Y", "Z">>

\* [A-Za-z]
AsciiLetter(c) == \E k \in 1..Len(AsciiLower) : c \in {AsciiLower[k], AsciiUpper[k]}

\* str.upper() on one character
upper(c) ==
    IF \E k \in 1..Len(AsciiLower) : AsciiLower[k] = c
    THEN AsciiUpper[CHOOSE k \in 1..Len(AsciiLower) : AsciiLower[k] = c]
    ELSE c

\* re.sub(r'([A-Za-z]+)(:)', capitalize_speaker, script): the letters of a
\* run of letters that a colon follows are put in upper case
sub_speaker_names(s) ==
    LET NonLetterAfter(i) == {j \in (i + 1)..Len(s) : ~AsciiLetter(s[j])}
        BeforeColon(i) ==
            /\ AsciiLetter(s[i])
            /\ NonLetterAfter(i) # {}
            /\ s[CHOOSE j \in NonLetterAfter(i) : \A k \in NonLetterAfter(i) : j <= k] = ":"
    IN  [i \in 1..Len(s) |-> IF BeforeColon(i) THEN upper(s[i]) ELSE s[i]]

\* clean_script(script)
clean_script(script) ==
    strip(sub_speaker_names(sub_blank_lines(
        sub_inline_code(sub_code_blocks(script, 1), 1))))

\* "\n\n".join(parts)
RECURSIVE join_paragraphs(_)
join_paragraphs(parts) ==
    IF Len(parts) = 0 THEN <<>>
    ELSE IF Len(parts) = 1 THEN parts[1]
    ELSE parts[1] \o <<"\n", "\n">> \o join_paragraphs(Tail(parts))

\* lines 135-139: the header with the file name and the date, one element
header == <<"DRAMA SCRIPT\nGenerated from: book.pdf\nDate: 2025-01-01 00:00:00\n\n">>

\* PDFToScript(), before generate_script(pdf_path, output_path)
InitScript ==
    /\ pc = "script"
    /\ speed = 10
    /\ text = None
    /\ IdleRun
    /\ IdleScript
    /\ disk = {}
    /\ exported = None
    /\ character_voices = initial_character_voices
    /\ next_voice_index = initial_next_voice_index
    /\ docs = <<>>
    /\ run = 1
    /\ first_voices = None
    /\ last_call = NoCall
    /\ attr_in = NoInput
    /\ attr_out = NoResult

sampleVars == <<speed, loopVars, disk, exported, registryVars, attributed,
                tts_calls, docs, rerunVars, attr_in, attr_out>>

\* line 115: text = self.extract_text_from_pdf(pdf_path)
ScriptExtractText ==
    /\ pc = "script"
    /\ \E pdf \in ScriptPDFs : text' = Some(PDFToScript_extract_text_from_pdf(pdf))
    /\ pc' = "script_branch"
    /\ UNCHANGED <<sampleVars, scriptVars>>

\* lines 116-122: return when there is no text, else chunk it
ScriptBranch ==
    /\ pc = "script_branch"
    /\ IF Len(text.val) = 0
       THEN /\ pc' = "script_done"
            /\ UNCHANGED chunks
       ELSE /\ pc' = "process"
            /\ chunks' = chunk_text(text.val, DefaultChunkSize)
    /\ UNCHANGED <<text, sampleVars, chunk_size, full_script, chunk_calls,
                   output_file>>

\* lines 124-128: one round of the loop, the endpoint answering r
ProcessChunk ==
    /\ pc = "process"
    /\ Len(chunk_calls) < Len(chunks)
    /\ \E r \in Responses :
          LET chunk        == chunks[Len(chunk_calls) + 1]
              script_chunk == process_chunk(r)
          IN  /\ chunk_calls' = Append(chunk_calls, [chunk |-> chunk, answer |-> r])
              /\ full_script' = IF Len(script_chunk) > 0
                                THEN Append(full_script, script_chunk)
                                ELSE full_script
    /\ UNCHANGED <<pc, text, sampleVars, chunk_size, chunks, output_file>>

\* lines 131-148: the script is put together and written; when open raises
\* there is no file
SaveScript ==
    /\ pc = "process"
    /\ Len(chunk_calls) = Len(chunks)
    /\ \E opened \in BOOLEAN :
          output_file' =
              IF opened
              THEN Some(header \o clean_script(join_paragraphs(full_script)))
              ELSE None
    /\ pc' = "script_done"
    /\ UNCHANGED <<text, sampleVars, chunk_size, chunks, full_script, chunk_calls>>

NextScript == ScriptExtractText \/ ScriptBranch \/ ProcessChunk \/ SaveScript

SpecScript == InitScript /\ [][NextScript]_vars

-----------------------------------------------------------------------------
(* chunk_text called on its own with any text and chunk_size.              *)

ChunkChars == {"a", ".", " "}

ChunkTexts == SeqsUpTo(ChunkChars, MaxChunkText)

ChunkSizes == 0..MaxChunkSize

InitChunk ==
    /\ pc = "chunk"
    /\ speed = 10
    /\ text \in {Some(t) : t \in ChunkTexts}
    /\ chunk_size \in ChunkSizes
    /\ chunks = <<>>
    /\ full_script = <<>>
    /\ chunk_calls = <<>>
    /\ output_file = None
    /\ IdleRun
    /\ disk = {}
    /\ exported = None
    /\ character_voices = initial_character_voices
    /\ next_voice_index = initial_next_voice_index
    /\ docs = <<>>
    /\ run = 1
    /\ first_voices = None
    /\ last_call = NoCall
    /\ attr_in = NoInput
    /\ attr_out = NoResult

\* chunks = converter.chunk_text(text, chunk_size)
ChunkText ==
    /\ pc = "chunk"
    /\ chunks' = chunk_text(text.val, chunk_size)
    /\ pc' = "chunked"
    /\ UNCHANGED <<text, sampleVars, chunk_size, full_script, chunk_calls,
                   output_file>>

NextChunk == ChunkText

SpecChunk == InitChunk /\ [][NextChunk]_vars

-----------------------------------------------------------------------------
(* Properties of chunk_text (SpecChunk).                                   *)

\* the parts that are not empty once stripped, stripped
RECURSIVE StrippedNonEmpty(_)
StrippedNonEmpty(parts) ==
    IF Len(parts) = 0 THEN <<>>
    ELSE (IF strip(parts[1]) = <<>> THEN <<>> ELSE <<strip(parts[1])>>)
             \o StrippedNonEmpty(Tail(parts))

\* the sentences of the chunks from chunk k on, in order
RECURSIVE SentencesOfChunks(_, _)
SentencesOfChunks(cs, k) ==
    IF k > Len(cs) THEN <<>>
    ELSE PiecesOf(cs[k]) \o SentencesOfChunks(cs, k + 1)

\* the chunks hold the sentences of the text, each once and in order
ChunksKeepSentences ==
    StrippedNonEmpty(SentencesOfChunks(chunks, 1))
        = StrippedNonEmpty(PiecesOf(text.val))

\* a chunk of more than one sentence is shorter than chunk_size
ChunksWithinSize ==
    \A k \in 1..Len(chunks) :
        Len(PiecesOf(chunks[k])) > 1 => Len(chunks[k]) < chunk_size

\* C19: the chunks chunk_text returns hold every sentence of the split once
\* and in order, no chunk is empty, and a chunk of more than one sentence
\* is shorter than chunk_size.
C19_ChunksCoverTextNoneEmpty ==
    pc = "chunked" =>
        /\ ChunksKeepSentences
        /\ \A k \in 1..Len(chunks) : chunks[k] # <<>>
        /\ ChunksWithinSize

-----------------------------------------------------------------------------
(* Properties of generate_script (SpecScript).                             *)

\* the request of a process_chunk call succeeded and its result has text
Converted(call) ==
    /\ ~call.answer.raised
    /\ call.answer.status = 200
    /\ strip(call.answer.response) # <<>>

\* the results of the converted chunks among the calls from call k on
RECURSIVE ResultsFrom(_, _)
ResultsFrom(calls, k) ==
    IF k > Len(calls) THEN <<>>
    ELSE (IF Converted(calls[k]) THEN <<strip(calls[k].answer.response)>> ELSE <<>>)
             \o ResultsFrom(calls, k + 1)

\* C20: the k-th process_chunk call is for the k-th chunk whatever the
\* calls before it returned; the results kept are those of the converted
\* chunks, in chunk order; a generate_script that got text ends with every
\* chunk processed, and a script that was saved is the header followed by
\* the cleaned results joined by blank lines; a generate_script that got no
\* text ends with no chunk processed and no output file.
C20_FailedChunksSkipped ==
    /\ Len(chunk_calls) <= Len(chunks)
    /\ \A k \in 1..Len(chunk_calls) : chunk_calls[k].chunk = chunks[k]
    /\ full_script = ResultsFrom(chunk_calls, 1)
    /\ (pc = "script_done" /\ Truthy(text)) =>
          /\ Len(chunk_calls) = Len(chunks)
          /\ ~output_file.none =>
                output_file.val
                    = header \o clean_script(join_paragraphs(ResultsFrom(chunk_calls, 1)))
    /\ (pc = "script_done" /\ ~Truthy(text)) =>
          /\ chunk_calls = <<>>
          /\ output_file.none

\* three chunks, the conversion of the second failed, the script was saved
C20_Witness ==
    /\ pc = "script_done"
    /\ Len(chunks) = 3
    /\ Converted(chunk_calls[1])
    /\ chunk_calls[2].answer.status = 500
    /\ Converted(chunk_calls[3])
    /\ Len(full_script) = 2
    /\ ~output_file.none

=============================================================================
